---------------------------- MODULE Spec2Model ----------------------------
(***************************************************************************)
(* Model of data_fingerprint.py: the canonicalisation pipeline             *)
(* (standardize_datetime_columns, column sort, strip, round, fillna,       *)
(* astype(str)), the two fingerprint functions, detect_decimal_separator   *)
(* and main.                                                               *)
(*                                                                         *)
(* Text is a sequence of one-character strings, so that strip, split,      *)
(* join, strptime and strftime are computed character by character.        *)
(* SHA-256 is modelled as an injective constructor (Sha256), the only      *)
(* property of the digest the program relies on.                           *)
(***************************************************************************)
EXTENDS Integers, Sequences, FiniteSets, TLC

-----------------------------------------------------------------------------
(* Characters and strings                                                  *)

Digits == <<"0", "1", "2", "3", "4", "5", "6", "7", "8", "9">>

DigitChars == {Digits[i] : i \in 1..10}

\* str.isdigit() on one character (ASCII digits only in the modelled alphabet)
IsDigitChar(c) == c \in DigitChars

\* value of a digit character
DigitVal(c) == (CHOOSE i \in 1..10 : Digits[i] = c) - 1

\* the characters str.strip() removes
IsSpace(c) == c \in {" ", "\t", "\n"}

\* code points of the modelled alphabet (the order sorted() compares by)
Code(c) ==
  CASE c = "\t" -> 9
    [] c = "\n" -> 10
    [] c = " " -> 32
    [] c = "\"" -> 34
    [] c = "," -> 44
    [] c = "-" -> 45
    [] c = "." -> 46
    [] c = "/" -> 47
    [] IsDigitChar(c) -> 48 + DigitVal(c)
    [] c = ":" -> 58
    [] c = "B" -> 66
    [] c = "a" -> 97
    [] c = "b" -> 98
    [] c = "c" -> 99
    [] c = "e" -> 101
    [] c = "x" -> 120
    [] c = "y" -> 121
    [] OTHER -> 127

\* Python's < on str: lexicographic by code point, a proper prefix is smaller
RECURSIVE LexLess(_, _)
LexLess(s, t) ==
  IF t = <<>> THEN FALSE
  ELSE IF s = <<>> THEN TRUE
  ELSE IF Code(Head(s)) # Code(Head(t)) THEN Code(Head(s)) < Code(Head(t))
  ELSE LexLess(Tail(s), Tail(t))

\* a list given as a function on 1..n, as the tuple of its elements
AsList(f) == <<>> \o f

\* "name = value", then the statements that use the name: the value is
\* computed once and In is what follows the assignment
Let(value, In(_)) == In(value)

\* str.isdigit(): non-empty and every character a digit
IsDigitStr(s) == s # <<>> /\ \A i \in 1..Len(s) : IsDigitChar(s[i])

RECURSIVE LStrip(_)
LStrip(s) == IF s # <<>> /\ IsSpace(Head(s)) THEN LStrip(Tail(s)) ELSE s

RECURSIVE RStrip(_)
RStrip(s) ==
  IF s # <<>> /\ IsSpace(s[Len(s)]) THEN RStrip(SubSeq(s, 1, Len(s) - 1)) ELSE s

\* str.strip()
Strip(s) == RStrip(LStrip(s))

\* ''.join / sep.join over a sequence of strings
RECURSIVE Join(_, _)
Join(sep, parts) ==
  IF parts = <<>> THEN <<>>
  ELSE IF Len(parts) = 1 THEN parts[1]
  ELSE parts[1] \o sep \o Join(sep, Tail(parts))

\* s.split(sep) for a one-character separator
RECURSIVE SplitAcc(_, _, _)
SplitAcc(s, sep, cur) ==
  IF s = <<>> THEN <<cur>>
  ELSE IF Head(s) = sep THEN <<cur>> \o SplitAcc(Tail(s), sep, <<>>)
  ELSE SplitAcc(Tail(s), sep, Append(cur, Head(s)))

Split(s, sep) == SplitAcc(s, sep, <<>>)

\* decimal numeral of n, zero padded to w digits (strftime's %Y, %m, ...)
RECURSIVE Pad(_, _)
Pad(n, w) == IF w = 0 THEN <<>> ELSE Pad(n \div 10, w - 1) \o <<Digits[(n % 10) + 1]>>

\* decimal numeral of a natural number, no padding (str(int))
RECURSIVE NatStr(_)
NatStr(n) == IF n < 10 THEN <<Digits[n + 1]>> ELSE NatStr(n \div 10) \o <<Digits[(n % 10) + 1]>>

\* int() of a digit string
RECURSIVE NumVal(_)
NumVal(s) == IF s = <<>> THEN 0 ELSE 10 * NumVal(SubSeq(s, 1, Len(s) - 1)) + DigitVal(s[Len(s)])

-----------------------------------------------------------------------------
(* Cells, columns and tables (the pandas DataFrame)                        *)

NoInst == [Y |-> 0, m |-> 0, d |-> 0, H |-> 0, M |-> 0, S |-> 0]

NoNum == [neg |-> FALSE, ip |-> 0, micro |-> 0, sub |-> 0]

\* None / NaN / NaT
Null == [k |-> "null", s |-> <<>>, t |-> NoInst, x |-> NoNum]

\* a Python str
Str(s) == [k |-> "str", s |-> s, t |-> NoInst, x |-> NoNum]

\* a Timestamp
Dt(t) == [k |-> "dt", s |-> <<>>, t |-> t, x |-> NoNum]

\* a number: sign, integer part, the first six decimals (micro) and four
\* further decimals (sub), i.e. a fixed-point value in units of 10^-10
Num(x) == [k |-> "num", s |-> <<>>, t |-> NoInst, x |-> x]

\* a column: its dtype and its cells
Col(dtype, cells) == [dtype |-> dtype, cells |-> AsList(cells)]

\* a DataFrame: column names in column order, and the columns
Frame(names, cols) == [names |-> AsList(names), cols |-> AsList(cols)]

NRows(df) == IF df.cols = <<>> THEN 0 ELSE Len(df.cols[1].cells)

NCols(df) == Len(df.names)

-----------------------------------------------------------------------------
(* Datetime parsing and formatting (pd.to_datetime, Series.dt.strftime)    *)

Directives == {"%Y", "%m", "%d", "%H", "%M", "%S"}

\* the explicit formats, in the order they are tried
datetime_formats ==
  << <<"%Y", "-", "%m", "-", "%d", " ", "%H", ":", "%M", ":", "%S">>,
     <<"%d", "-", "%m", "-", "%Y", " ", "%H", ":", "%M", ":", "%S">>,
     <<"%Y", "-", "%m", "-", "%d", " ", "%H", ":", "%M">>,
     <<"%d", "-", "%m", "-", "%Y", " ", "%H", ":", "%M">>,
     <<"%Y", "-", "%m", "-", "%d">>,
     <<"%d", "-", "%m", "-", "%Y">> >>

\* the date-only format, used for every datetime column
date_format_date_only == datetime_formats[5]

\* a month-first output format
date_format_month_first ==
  <<"%m", "-", "%d", "-", "%Y", " ", "%H", ":", "%M", ":", "%S">>

\* the output format of the fingerprint functions (date_only = False)
date_format == datetime_formats[1]

\* the layouts the format-free parse recognises in the modelled vocabulary:
\* year-first dates with '-' or '/', with or without a time
InferFormats ==
  << datetime_formats[1], datetime_formats[3], datetime_formats[5],
     <<"%Y", "/", "%m", "/", "%d">> >>

IsLeap(y) == (y % 4 = 0 /\ y % 100 # 0) \/ y % 400 = 0

DaysIn(y, m) ==
  IF m = 2 THEN (IF IsLeap(y) THEN 29 ELSE 28)
  ELSE IF m \in {4, 6, 9, 11} THEN 30 ELSE 31

\* a calendar instant a Timestamp can hold
ValidInstant(t) ==
  /\ t.Y \in 1678..2261
  /\ t.m \in 1..12
  /\ t.d \in 1..DaysIn(t.Y, t.m)
  /\ t.H \in 0..23
  /\ t.M \in 0..59
  /\ t.S \in 0..59

StrptimeDefault == [Y |-> 1900, m |-> 1, d |-> 1, H |-> 0, M |-> 0, S |-> 0]

ParseFail == [ok |-> FALSE, t |-> NoInst]

SetField(t, tok, v) ==
  CASE tok = "%Y" -> [t EXCEPT !.Y = v]
    [] tok = "%m" -> [t EXCEPT !.m = v]
    [] tok = "%d" -> [t EXCEPT !.d = v]
    [] tok = "%H" -> [t EXCEPT !.H = v]
    [] tok = "%M" -> [t EXCEPT !.M = v]
    [] tok = "%S" -> [t EXCEPT !.S = v]

\* exact match of the whole string against the format: every directive
\* takes its zero-padded digits, every literal must be present, and no
\* unconverted data may remain
RECURSIVE StrptimeFrom(_, _, _)
StrptimeFrom(fmt, s, t) ==
  IF fmt = <<>>
  THEN (IF s = <<>> /\ ValidInstant(t) THEN [ok |-> TRUE, t |-> t] ELSE ParseFail)
  ELSE LET tok == Head(fmt)
           w == IF tok = "%Y" THEN 4 ELSE 2
       IN IF tok \in Directives
          THEN IF Len(s) >= w /\ IsDigitStr(SubSeq(s, 1, w))
               THEN StrptimeFrom(Tail(fmt), SubSeq(s, w + 1, Len(s)),
                                 SetField(t, tok, NumVal(SubSeq(s, 1, w))))
               ELSE ParseFail
          ELSE IF s # <<>> /\ Head(s) = tok
               THEN StrptimeFrom(Tail(fmt), Tail(s), t)
               ELSE ParseFail

Strptime(fmt, s) == StrptimeFrom(fmt, s, StrptimeDefault)

\* Timestamp.strftime(fmt)
RECURSIVE Strftime(_, _)
Strftime(fmt, t) ==
  IF fmt = <<>> THEN <<>>
  ELSE LET tok == Head(fmt)
           piece == CASE tok = "%Y" -> Pad(t.Y, 4)
                      [] tok = "%m" -> Pad(t.m, 2)
                      [] tok = "%d" -> Pad(t.d, 2)
                      [] tok = "%H" -> Pad(t.H, 2)
                      [] tok = "%M" -> Pad(t.M, 2)
                      [] tok = "%S" -> Pad(t.S, 2)
                      [] OTHER -> <<tok>>
       IN piece \o Strftime(Tail(fmt), t)

\* values pd.to_datetime reads as missing: None/NaN/NaT and the empty string
IsNullLike(c) == c.k = "null" \/ (c.k = "str" /\ c.s = <<>>)

\* one cell under pd.to_datetime(..., format=fmt)
ParseCellFormat(fmt, c) ==
  IF IsNullLike(c) THEN [ok |-> TRUE, c |-> Null]
  ELSE IF c.k = "dt" THEN [ok |-> TRUE, c |-> c]
  ELSE IF c.k = "str"
       THEN Let(Strptime(fmt, c.s), LAMBDA r :
              IF r.ok THEN [ok |-> TRUE, c |-> Dt(r.t)] ELSE [ok |-> FALSE, c |-> Null])
       ELSE [ok |-> FALSE, c |-> Null]

\* pd.to_datetime(df[col], format=fmt, errors='raise'): raises (ok = FALSE)
\* as soon as one value does not match
ToDatetimeFormat(cells, fmt) ==
  Let(AsList([i \in 1..Len(cells) |-> ParseCellFormat(fmt, cells[i])]), LAMBDA r :
    [ok |-> \A i \in 1..Len(cells) : r[i].ok,
     cells |-> AsList([i \in 1..Len(cells) |-> r[i].c])])

\* index of the first layout of fmts that parses s exactly, 0 if none
RECURSIVE FirstFormat(_, _, _)
FirstFormat(fmts, s, i) ==
  IF i > Len(fmts) THEN 0
  ELSE IF Strptime(fmts[i], s).ok THEN i
  ELSE FirstFormat(fmts, s, i + 1)

\* the format-free parse of one string, element by element (dateutil):
\* surrounding whitespace is ignored
ParseCellFree(c) ==
  IF c.k = "dt" THEN c
  ELSE IF c.k # "str" \/ c.s = <<>> THEN Null
  ELSE Let(Strip(c.s), LAMBDA s :
       Let(FirstFormat(InferFormats, s, 1), LAMBDA f :
         IF f = 0 THEN Null ELSE Dt(Strptime(InferFormats[f], s).t)))

\* the format guessed from one string: its layout together with the
\* whitespace around it, which becomes part of the guessed format
GuessFormat(s) ==
  [f |-> FirstFormat(InferFormats, Strip(s), 1),
   lead |-> s # <<>> /\ IsSpace(Head(s)),
   trail |-> s # <<>> /\ IsSpace(s[Len(s)])]

\* one cell under a guessed format, errors='coerce'
ParseCellGuessed(g, c) ==
  IF c.k = "dt" THEN c
  ELSE IF c.k # "str" \/ c.s = <<>> THEN Null
  ELSE Let(GuessFormat(c.s), LAMBDA h :
       Let(Strptime(InferFormats[g.f], Strip(c.s)), LAMBDA r :
         IF h.lead = g.lead /\ h.trail = g.trail /\ r.ok THEN Dt(r.t) ELSE Null))

\* index of the first value that is not missing, 0 if none
RECURSIVE FirstNonNull(_, _)
FirstNonNull(cells, i) ==
  IF i > Len(cells) THEN 0
  ELSE IF ~IsNullLike(cells[i]) THEN i
  ELSE FirstNonNull(cells, i + 1)

\* pd.to_datetime(df[col], errors='coerce').  policy "each": every element
\* is parsed on its own (pandas < 2.0).  policy "first": one format is
\* guessed from the first non-missing value and applied to all values, and
\* only when no format can be guessed are the elements parsed one by one
\* (pandas >= 2.0).
ToDatetimeCoerce(cells, policy) ==
  Let(FirstNonNull(cells, 1), LAMBDA i0 :
  Let(IF i0 = 0 \/ cells[i0].k # "str" THEN [f |-> 0, lead |-> FALSE, trail |-> FALSE]
      ELSE GuessFormat(cells[i0].s), LAMBDA g :
    IF policy = "first" /\ g.f # 0
    THEN AsList([i \in 1..Len(cells) |-> ParseCellGuessed(g, cells[i])])
    ELSE AsList([i \in 1..Len(cells) |-> ParseCellFree(cells[i])])))

\* Series.dt.strftime(date_format): NaT stays missing
StrftimeCell(fmt, c) == IF c.k = "dt" THEN Str(Strftime(fmt, c.t)) ELSE Null

-----------------------------------------------------------------------------
(* standardize_datetime_columns                                            *)

\* the share of values the format-free parse must read: 0.8 = 8 / 10
InferThresholdNum == 8

InferThresholdDen == 10

\* the loop over datetime_formats for one object column: the first format
\* that parses the whole column ends the loop (break); fmt = 0 when every
\* format raised.  tried counts the formats attempted.
RECURSIVE TryFormats(_, _)
TryFormats(cells, i) ==
  IF i > Len(datetime_formats)
  THEN [fmt |-> 0, tried |-> i - 1, cells |-> cells]
  ELSE Let(ToDatetimeFormat(cells, datetime_formats[i]), LAMBDA r :
         IF r.ok THEN [fmt |-> i, tried |-> i, cells |-> r.cells]
         ELSE TryFormats(cells, i + 1))

\* the threshold test with > in place of >=
MeetsThresholdStrict(cells) ==
  LET n == Len(cells)
      good == Cardinality({i \in 1..n : cells[i].k # "null"})
  IN n > 0 /\ good * InferThresholdDen > InferThresholdNum * n

\* parsed_col.notnull().mean() >= 0.8 (the mean of an empty column is NaN)
MeetsThreshold(cells) ==
  LET n == Len(cells)
      good == Cardinality({i \in 1..n : cells[i].k # "null"})
  IN n > 0 /\ good * InferThresholdDen >= InferThresholdNum * n

\* the body of "for col in object_cols": the column as assigned back into
\* df (parsed, or untouched), and how it was detected
ParseObjectColumn(cells, policy) ==
  Let(TryFormats(cells, 1), LAMBDA e :
    IF e.fmt # 0
    THEN [stage |-> "explicit", fmt |-> e.fmt, tried |-> e.tried, cells |-> e.cells]
    ELSE Let(ToDatetimeCoerce(cells, policy), LAMBDA p :
           IF MeetsThreshold(p)
           THEN [stage |-> "inferred", fmt |-> 0, tried |-> e.tried, cells |-> p]
           ELSE [stage |-> "none", fmt |-> 0, tried |-> e.tried, cells |-> cells]))

\* how standardize_datetime_columns treats one column
DetectColumn(col, policy) ==
  IF col.dtype = "datetime"
  THEN [stage |-> "native", fmt |-> 0, tried |-> 0, cells |-> col.cells]
  ELSE IF col.dtype = "object"
       THEN ParseObjectColumn(col.cells, policy)
       ELSE [stage |-> "none", fmt |-> 0, tried |-> 0, cells |-> col.cells]

\* a detected datetime column after "df[col] = df[col].dt.strftime(date_format)";
\* any other column as it was
RewriteColumn(col, r) ==
  IF r.stage = "none" THEN col
  ELSE Col("object", [i \in 1..Len(r.cells) |-> StrftimeCell(date_format, r.cells[i])])

\* standardize_datetime_columns(df): the frame it leaves in df (it assigns
\* into the frame it was given) and returns, and per column what it
\* reported: the stage that detected the column, the format that parsed it
\* and the number of formats attempted
standardize_datetime_columns(df, policy) ==
  Let(AsList([j \in 1..NCols(df) |-> DetectColumn(df.cols[j], policy)]), LAMBDA r :
    [df |-> Frame(df.names, [j \in 1..NCols(df) |-> RewriteColumn(df.cols[j], r[j])]),
     log |-> AsList([j \in 1..NCols(df) |->
                       [stage |-> r[j].stage, fmt |-> r[j].fmt, tried |-> r[j].tried]])])

-----------------------------------------------------------------------------
(* The canonicalisation steps shared by both fingerprint functions         *)

\* sorted() on a list of strings
RECURSIVE InsertSorted(_, _)
InsertSorted(x, s) ==
  IF s = <<>> THEN <<x>>
  ELSE IF LexLess(x, Head(s)) THEN <<x>> \o s
  ELSE <<Head(s)>> \o InsertSorted(x, Tail(s))

RECURSIVE Sorted(_)
Sorted(s) == IF s = <<>> THEN <<>> ELSE InsertSorted(Head(s), Sorted(Tail(s)))

\* position of a column name in df.columns
IndexOf(names, n) == CHOOSE j \in 1..Len(names) : names[j] = n

\* the columns left in the order they came in
ReindexAsIs(df) == df

\* df.reindex(sorted(df.columns), axis=1)
ReindexSorted(df) ==
  Let(Sorted(df.names), LAMBDA ns :
    Frame(ns, [j \in 1..Len(ns) |-> df.cols[IndexOf(df.names, ns[j])]]))

\* x.str.strip() on one value of an object column: a value that is not a
\* str becomes NaN
StripCell(c) == IF c.k = "str" THEN Str(Strip(c.s)) ELSE Null

\* df[string_cols] = df[string_cols].apply(lambda x: x.str.strip())
StripStrings(df) ==
  Frame(df.names,
        [j \in 1..NCols(df) |->
           IF df.cols[j].dtype = "object"
           THEN Col("object", [i \in 1..Len(df.cols[j].cells) |-> StripCell(df.cols[j].cells[i])])
           ELSE df.cols[j]])

\* the number of decimals kept by round()
RoundDecimals == 6

\* 10^RoundDecimals: the range of the micro field
MicroRange == 10 ^ RoundDecimals

\* the decimals a number carries beyond the kept ones (the sub field)
SubDigits == 4

\* half of one unit of the last kept decimal, in units of the sub field
HalfSub == (10 ^ SubDigits) \div 2

\* round to 6 decimals with every tie going up in magnitude
Round6HalfUp(x) ==
  LET up == x.sub >= HalfSub
      mic == IF up THEN x.micro + 1 ELSE x.micro
  IN [neg |-> x.neg,
      ip |-> IF mic = MicroRange THEN x.ip + 1 ELSE x.ip,
      micro |-> IF mic = MicroRange THEN 0 ELSE mic,
      sub |-> 0]

\* numpy's round to 6 decimals: to the nearest multiple of 10^-6, an exact
\* tie going to the even 6th decimal
Round6(x) ==
  LET up == x.sub > HalfSub \/ (x.sub = HalfSub /\ x.micro % 2 = 1)
      mic == IF up THEN x.micro + 1 ELSE x.micro
  IN [neg |-> x.neg,
      ip |-> IF mic = MicroRange THEN x.ip + 1 ELSE x.ip,
      micro |-> IF mic = MicroRange THEN 0 ELSE mic,
      sub |-> 0]

RoundCell(c) == IF c.k = "num" THEN Num(Round6(c.x)) ELSE c

\* df[numeric_cols] = df[numeric_cols].round(6); an int column is unchanged
RoundNumeric(df) ==
  Frame(df.names,
        [j \in 1..NCols(df) |->
           IF df.cols[j].dtype = "float64"
           THEN Col("float64", [i \in 1..Len(df.cols[j].cells) |-> RoundCell(df.cols[j].cells[i])])
           ELSE df.cols[j]])

\* a digit string without its trailing zeros
RECURSIVE DropTrailingZeros(_)
DropTrailingZeros(s) ==
  IF s # <<>> /\ s[Len(s)] = "0" THEN DropTrailingZeros(SubSeq(s, 1, Len(s) - 1)) ELSE s

\* str() of a float that carries at most six decimals: fixed notation with
\* at least one decimal, exponent notation below 10^-4
FloatStr(x) ==
  LET sign == IF x.neg THEN <<"-">> ELSE <<>>
      frac == DropTrailingZeros(Pad(x.micro, RoundDecimals) \o
                                (IF x.sub = 0 THEN <<>> ELSE Pad(x.sub, SubDigits)))
      sig == DropTrailingZeros(NatStr(x.micro))
  IN IF x.ip = 0 /\ x.micro > 0 /\ x.micro < 100 /\ x.sub = 0
     THEN sign \o <<Head(sig)>>
          \o (IF Len(sig) > 1 THEN <<".">> \o Tail(sig) ELSE <<>>)
          \o <<"e", "-", "0">> \o NatStr(RoundDecimals + 1 - Len(NatStr(x.micro)))
     ELSE sign \o NatStr(x.ip) \o <<".">> \o (IF frac = <<>> THEN <<"0">> ELSE frac)

\* str() of an int
IntStr(x) == (IF x.neg THEN <<"-">> ELSE <<>>) \o NatStr(x.ip)

\* missing values left as they are
FillNaCellSkip(c) == c

\* df.fillna(''): every missing value becomes the empty string
FillNaCell(c) == IF c.k = "null" THEN Str(<<>>) ELSE c

\* .astype(str) on one value
AsStrCell(dtype, c) ==
  CASE c.k = "str" -> c
    [] c.k = "num" -> Str(IF dtype = "int64" THEN IntStr(c.x) ELSE FloatStr(c.x))
    [] c.k = "dt" -> Str(Strftime(date_format, c.t))
    [] c.k = "null" -> Str(<<"n", "a", "n">>)

\* df.fillna('').astype(str)
FillNaAsStr(df) ==
  Frame(df.names,
        [j \in 1..NCols(df) |->
           Col("object",
               [i \in 1..Len(df.cols[j].cells) |->
                  AsStrCell(df.cols[j].dtype, FillNaCell(df.cols[j].cells[i]))])])

\* row i of a frame of strings: the list of its field strings
RowValues(df, i) == AsList([j \in 1..NCols(df) |-> df.cols[j].cells[i].s])

-----------------------------------------------------------------------------
(* The two fingerprint functions                                           *)

\* hashlib.sha256(x).hexdigest(): an injective constructor
Sha256(x) == <<"sha256", x>>

\* the order sorted() puts hex digests in: a fixed total order on digests
HexLess(h1, h2) == LexLess(h1[2], h2[2])

RECURSIVE InsertHash(_, _)
InsertHash(h, s) ==
  IF s = <<>> THEN <<h>>
  ELSE IF HexLess(h, Head(s)) THEN <<h>> \o s
  ELSE <<Head(s)>> \o InsertHash(h, Tail(s))

\* sorted(row_hashes)
RECURSIVE SortedHashes(_)
SortedHashes(hs) == IF hs = <<>> THEN <<>> ELSE InsertHash(Head(hs), SortedHashes(Tail(hs)))

\* ''.join(row_hashes): every digest has 64 characters, so the joined string
\* is the sequence of its 64-character blocks
HexConcat(hs) == hs

\* the characters that make csv.writer quote a field (QUOTE_MINIMAL)
NeedsQuote(s) == \E i \in 1..Len(s) : s[i] \in {",", "\"", "\n", "\r"}

RECURSIVE DoubleQuotes(_)
DoubleQuotes(s) ==
  IF s = <<>> THEN <<>>
  ELSE (IF Head(s) = "\"" THEN <<"\"", "\"">> ELSE <<Head(s)>>) \o DoubleQuotes(Tail(s))

CsvField(s) == IF NeedsQuote(s) THEN <<"\"">> \o DoubleQuotes(s) \o <<"\"">> ELSE s

\* one record of to_csv: a lone empty field is written as ""
CsvRecord(vals) ==
  IF Len(vals) = 1 /\ vals[1] = <<>> THEN <<"\"", "\"">>
  ELSE Join(<<",">>, AsList([j \in 1..Len(vals) |-> CsvField(vals[j])]))

\* df.to_csv(index=False, header=False, lineterminator='\n')
RECURSIVE ToCsvFrom(_, _)
ToCsvFrom(df, i) ==
  IF i > NRows(df) THEN <<>>
  ELSE CsvRecord(RowValues(df, i)) \o <<"\n">> \o ToCsvFrom(df, i + 1)

ToCsv(df) == ToCsvFrom(df, 1)

\* df.apply(lambda row: ','.join(row.values), axis=1)
RowStrings(df) == AsList([i \in 1..NRows(df) |-> Join(<<",">>, RowValues(df, i))])

\* generate_order_dependent_fingerprint(df): the digest returned
\* (fingerprint), the frame that was serialised (hashed), the state the
\* call leaves the caller's frame in (arg): standardize_datetime_columns
\* assigns into its argument, every later step works on a new frame; and
\* what standardize_datetime_columns reported (log)
generate_order_dependent_fingerprint(df, policy) ==
  Let(standardize_datetime_columns(df, policy), LAMBDA d0 :
  Let(ReindexSorted(d0.df), LAMBDA d2 :
  Let(StripStrings(d2), LAMBDA d3 :
  Let(RoundNumeric(d3), LAMBDA d4 :
  Let(FillNaAsStr(d4), LAMBDA d5 :
  Let(ToCsv(d5), LAMBDA data_string :
    [fingerprint |-> Sha256(data_string), hashed |-> d5, arg |-> d0.df,
     log |-> d0.log]))))))

\* generate_order_independent_fingerprint(df), likewise
generate_order_independent_fingerprint(df, policy) ==
  Let(standardize_datetime_columns(df, policy), LAMBDA d0 :
  Let(ReindexSorted(d0.df), LAMBDA d2 :
  Let(StripStrings(d2), LAMBDA d3 :
  Let(RoundNumeric(d3), LAMBDA d4 :
  Let(FillNaAsStr(d4), LAMBDA d5 :
  Let(RowStrings(d5), LAMBDA row_strings :
  Let(AsList([i \in 1..Len(row_strings) |-> Sha256(row_strings[i])]), LAMBDA row_hashes :
  Let(HexConcat(SortedHashes(row_hashes)), LAMBDA concatenated_hashes :
    [fingerprint |-> Sha256(concatenated_hashes), hashed |-> d5, arg |-> d0.df,
     log |-> d0.log]))))))))

-----------------------------------------------------------------------------
(* detect_decimal_separator                                                *)

decimal_separators == <<",", ".">>

\* the number of data rows sampled: range(10)
SampleRows == 10

IsSeparator(c) == \E k \in 1..Len(decimal_separators) : decimal_separators[k] = c

\* ''.join(c for c in value if c.isdigit() or c in decimal_separators)
RECURSIVE KeepDigitsAndSeparators(_)
KeepDigitsAndSeparators(value) ==
  IF value = <<>> THEN <<>>
  ELSE (IF IsDigitChar(Head(value)) \/ IsSeparator(Head(value))
        THEN <<Head(value)>> ELSE <<>>) \o KeepDigitsAndSeparators(Tail(value))

\* sep in value_no_sep
Contains(s, c) == \E i \in 1..Len(s) : s[i] = c

\* the test that makes decimal_counts[sep] grow by one for a value
CountsAsDecimal(value, sep) ==
  LET value_no_sep == KeepDigitsAndSeparators(value)
      parts == Split(value_no_sep, sep)
  IN /\ Contains(value_no_sep, sep)
     /\ Len(parts) = 2
     /\ \A k \in 1..Len(parts) : IsDigitStr(parts[k])

\* decimal_counts after the loop over decimal_separators for one value
CountValue(counts, value) ==
  [sep \in DOMAIN counts |-> IF CountsAsDecimal(value, sep) THEN counts[sep] + 1 ELSE counts[sep]]

\* decimal_counts after the loop over the values of one row; an empty row
\* (a blank line) has no values
RECURSIVE CountRow(_, _)
CountRow(counts, row) ==
  IF row = <<>> THEN counts ELSE CountRow(CountValue(counts, Head(row)), Tail(row))

\* the comparison with >= in place of >
DetectedDecimalTieComma(counts) == IF counts[","] >= counts["."] THEN "," ELSE "."

\* the separator returned for the final counts
DetectedDecimal(counts) == IF counts[","] > counts["."] THEN "," ELSE "."

NoCounts == [sep \in {",", "."} |-> 0]

-----------------------------------------------------------------------------
(* main                                                                    *)

\* no existence check
PathExistsUnchecked(fsys, path) == TRUE

\* os.path.exists(file_path)
PathExists(fsys, path) == path \in DOMAIN fsys /\ fsys[path].kind # "absent"

\* df.reindex(sorted(df.columns), axis=1) raises on duplicate column names
ReindexRaises(frame) ==
  \E j, h \in 1..NCols(frame) : j # h /\ frame.names[j] = frame.names[h]

-----------------------------------------------------------------------------
(* The tables the model is run on                                          *)

\* the largest number of rows of a table (date columns with deviant values)
MaxRows == 5

\* the largest number of rows of the other tables
SmallRows == 3

\* the largest number of values of a date column that are not plain dates
MaxDeviants == 2

\* the largest number of rows of a table with three columns
WideRows == 2

\* the largest number of calls made on one in-memory table
MaxCalls == 2

Inst(Y, m, d, H, M, S) == [Y |-> Y, m |-> m, d |-> d, H |-> H, M |-> M, S |-> S]

\* "2023-01-dd"
IsoDate(d) == Str(Strftime(datetime_formats[5], Inst(2023, 1, d, 0, 0, 0)))

\* "  2023-01-05  "
PaddedDate == Str(<<" ", " ">> \o IsoDate(5).s \o <<" ", " ">>)

\* "2023/01/dd"
SlashDate(d) == Str(Strftime(InferFormats[4], Inst(2023, 1, d, 0, 0, 0)))

\* "dd-01-2023 10:30"
DmyMinute(d) == Str(Strftime(datetime_formats[4], Inst(2023, 1, d, 10, 30, 0)))

\* "2023-01-dd 10:30:05"
IsoSecond(d) == Str(Strftime(datetime_formats[1], Inst(2023, 1, d, 10, 30, 5)))

DevKinds == {"pad", "slash", "junk", "none", "empty"}

Deviant(kind, d) ==
  CASE kind = "pad" -> PaddedDate
    [] kind = "slash" -> SlashDate(d)
    [] kind = "junk" -> Str(<<"x">>)
    [] kind = "none" -> Null
    [] kind = "empty" -> Str(<<>>)

\* an object column of n values: plain dates, the last k values deviant
ColIso(n, k, kind) ==
  Col("object", [i \in 1..n |-> IF i <= n - k THEN IsoDate(i) ELSE Deviant(kind, i)])

ColDmy(n) == Col("object", [i \in 1..n |-> DmyMinute(i)])

ColIsoSecond(n) == Col("object", [i \in 1..n |-> IF i = 2 THEN Null ELSE IsoSecond(i)])

ColAllNone(n) == Col("object", [i \in 1..n |-> Null])

TextValues ==
  << <<"a", ",", "b">>, <<" ", "c", " ">>, <<"x">>, <<>>, <<"c">>, <<"x", "\"", "y">> >>

ColText(n) == Col("object", [i \in 1..n |-> Str(TextValues[((i - 1) % Len(TextValues)) + 1])])

Dec(neg, ip, micro, sub) == Num([neg |-> neg, ip |-> ip, micro |-> micro, sub |-> sub])

\* 1.0000004999, 1.0000005001, 1.0000005, NaN, -1.0000005, 0.9999995,
\* 1.0000015, 2.5 (the first two as close to the tie as the sub field allows)
FloatValues ==
  << Dec(FALSE, 1, 0, HalfSub - 1), Dec(FALSE, 1, 0, HalfSub + 1), Dec(FALSE, 1, 0, HalfSub),
     Null, Dec(TRUE, 1, 0, HalfSub), Dec(FALSE, 0, MicroRange - 1, HalfSub),
     Dec(FALSE, 1, 1, HalfSub), Dec(FALSE, 2, MicroRange \div 2, 0) >>

ColFloat(n, off) ==
  Col("float64", [i \in 1..n |-> FloatValues[((i + off - 1) % Len(FloatValues)) + 1]])

ColInt(n) == Col("int64", [i \in 1..n |-> Dec(i % 2 = 0, i, 0, 0)])

ColNative(n) ==
  Col("datetime", [i \in 1..n |-> IF i = 2 THEN Null ELSE Dt(Inst(2024, 2, 28 + (i % 2), 23, 59, i))])

Min(a, b) == IF a < b THEN a ELSE b

\* date columns whose deviant values reach the format-free parse
MixedColumns(n) ==
  {ColIso(n, k, kind) : k \in 1..Min(n, MaxDeviants), kind \in {"pad", "slash", "junk"}}

DateColumns(n) ==
  {ColIso(n, k, kind) : k \in 0..Min(n, MaxDeviants), kind \in DevKinds}

ObjectColumns(n) == DateColumns(n) \cup {ColDmy(n), ColIsoSecond(n), ColAllNone(n), ColText(n)}

TypedColumns(n) == {ColFloat(n, 0), ColFloat(n, 4), ColInt(n), ColNative(n)}

NameB == <<"b">>

NameA == <<"a">>

NameAB == <<"a", "b">>

NameUpper == <<"B">>

OneColumnTables ==
  {Frame(<<NameB>>, <<c>>) :
     c \in UNION ({ObjectColumns(n) \cup TypedColumns(n) : n \in 1..SmallRows}
                  \cup {MixedColumns(n) : n \in 1..MaxRows})}

TwoColumnTables ==
  UNION {{Frame(<<NameB, NameA>>, <<c1, c2>>) :
            c1 \in {ColIso(n, 0, "pad"), ColIso(n, 1, "slash"), ColDmy(n)},
            c2 \in {ColText(n), ColFloat(n, 0)}} : n \in 1..SmallRows}
  \cup {Frame(<<NameB, NameA>>, <<ColIso(n, 1, "junk"), ColFloat(n, 0)>>) : n \in 1..MaxRows}

ThreeColumnTables ==
  UNION {{Frame(<<NameB, NameAB, NameUpper>>, <<c1, ColText(n), c3>>) :
            c1 \in {ColIso(n, 1, "pad"), ColInt(n)},
            c3 \in {ColFloat(n, 1), ColNative(n)}} : n \in 1..WideRows}

Tables == OneColumnTables \cup TwoColumnTables \cup ThreeColumnTables

\* the same data with its rows and columns in another order
Reorder(T, rp, cp) ==
  Frame([j \in 1..NCols(T) |-> T.names[cp[j]]],
        [j \in 1..NCols(T) |->
           Col(T.cols[cp[j]].dtype, [i \in 1..NRows(T) |-> T.cols[cp[j]].cells[rp[i]]])])

Identity(n) == [i \in 1..n |-> i]

\* the largest number of rows of the tables compared pairwise
MaxPairRows == 2

\* rows of two text fields, with and without ',' inside a field
PairRows ==
  { << <<"a">>, <<"c">> >>,
    << <<"a", ",", "b">>, <<"c">> >>,
    << <<"a">>, <<"b", ",", "c">> >> }

FrameOfRows(rows) ==
  Frame(<<NameA, NameB>>,
        << Col("object", [i \in 1..Len(rows) |-> Str(rows[i][1])]),
           Col("object", [i \in 1..Len(rows) |-> Str(rows[i][2])]) >>)

\* canonical tables: text cells, sorted column names, nothing missing
PairTables == UNION {{FrameOfRows(rows) : rows \in [1..n -> PairRows]} : n \in 1..MaxPairRows}

EmptyFrame == Frame(<<>>, <<>>)

\* what a path of the file system holds
Absent == [kind |-> "absent", table |-> EmptyFrame]

Unreadable == [kind |-> "unreadable", table |-> EmptyFrame]

Holding(T) == [kind |-> "table", table |-> T]

MainTables ==
  { Frame(<<NameB, NameA>>, <<ColIso(2, 1, "pad"), ColFloat(2, 0)>>),
    Frame(<<NameB>>, <<ColText(2)>>),
    Frame(<<NameA, NameA>>, <<ColInt(1), ColInt(1)>>) }

Contents == {Absent, Unreadable} \cup {Holding(T) : T \in MainTables}

\* what the user may type at the two prompts
Choices == {"1", "2", "3", "", " 1"}

TypedPaths == { <<"a">>, <<" ", "a", "\n">>, <<"b">>, <<"x">>, <<>> }

AllPaths == {Strip(q) : q \in TypedPaths}

\* the data rows a delimited file may hold, as csv.reader yields them
SampleRowValues ==
  { <<>>,
    << <<"1", ",", "5">> >>,
    << <<"1", ".", "5">>, <<"2", ".", "2", "5">> >>,
    << <<"1", ",", "2", "3", "4", ".", "5", "6">> >>,
    << <<"e", "1", ",", "5", "0">>, <<"x">> >>,
    << <<",", "5">>, <<"5", ".">> >>,
    << <<"1", ",", "2", ",", "3">> >>,
    << <<"a", "1", ".", "b", "5">>, <<"7", ",", "0">> >> }

HeaderValues == { <<>>, << <<"x">> >>, << <<"1", ",", "5">> >> }

-----------------------------------------------------------------------------
(* State                                                                   *)

VARIABLES
  policy,     \* how the installed pandas parses dates without a format
  orig,       \* the data, in its reference row and column order
  loaded,     \* the table as it was loaded (orig, possibly reordered)
  rowsMoved,  \* loaded has its rows in another order than orig
  colsMoved,  \* loaded has its columns in another order than orig
  df,         \* the caller's in-memory table object
  calls,      \* the number of fingerprint calls made on df
  out,        \* the last call on df: mode, digest, the frame hashed, the argument
  other,      \* a second table
  outOther,   \* the last call on other
  decPc,      \* detect_decimal_separator: position
  decHeader,  \* the header row that was skipped
  decRead,    \* the number of data rows read
  decCounts,  \* decimal_counts
  decSeen,    \* per separator, the sampled values that are two digit runs around it
  decResult,  \* the separator returned
  mPc,        \* main: position
  choice,     \* main: the mode typed
  file_path,  \* main: the path typed, stripped
  fs,         \* what each path holds
  mDf,        \* main: the table load_data returned
  printed,    \* main: the lines printed
  status,     \* main: the exit status, -1 while running
  loadLog     \* the paths load_data was called with

pipeVars == <<policy, orig, loaded, rowsMoved, colsMoved, df, calls, out>>

pairVars == <<other, outOther>>

decVars == <<decPc, decHeader, decRead, decCounts, decSeen, decResult>>

mainVars == <<mPc, choice, file_path, fs, mDf, printed, status, loadLog>>

vars == <<pipeVars, pairVars, decVars, mainVars>>

NoOut ==
  [mode |-> "none", digest |-> <<>>, canon |-> EmptyFrame, input |-> EmptyFrame, log |-> <<>>]

Policies == {"each", "first"}

IdlePair == other = EmptyFrame /\ outOther = NoOut

IdleDec ==
  /\ decPc = "idle" /\ decHeader = <<>> /\ decRead = 0
  /\ decCounts = NoCounts /\ decSeen = NoCounts /\ decResult = ""

IdleMain ==
  /\ mPc = "idle" /\ choice = "" /\ file_path = <<>>
  /\ fs = [q \in AllPaths |-> Absent]
  /\ mDf = EmptyFrame /\ printed = <<>> /\ status = -1 /\ loadLog = <<>>

\* a table is loaded, in any order of its rows and columns
InitPipe ==
  /\ policy \in Policies
  /\ orig \in Tables
  /\ \E rp \in Permutations(1..NRows(orig)), cp \in Permutations(1..NCols(orig)) :
        /\ loaded = Reorder(orig, rp, cp)
        /\ rowsMoved = (rp # Identity(NRows(orig)))
        /\ colsMoved = (cp # Identity(NCols(orig)))
  /\ df = loaded
  /\ calls = 0
  /\ out = NoOut

\* a call of generate_order_dependent_fingerprint(df): the digest returned,
\* and the datetime columns standardize_datetime_columns assigned into df
OrderDependentCall ==
  /\ calls < MaxCalls
  /\ orig # EmptyFrame
  /\ \E r \in {generate_order_dependent_fingerprint(df, policy)} :
        /\ out' = [mode |-> "dependent", digest |-> r.fingerprint,
                   canon |-> r.hashed, input |-> df, log |-> r.log]
        /\ df' = r.arg
  /\ calls' = calls + 1
  /\ UNCHANGED <<policy, orig, loaded, rowsMoved, colsMoved>>
  /\ UNCHANGED <<pairVars, decVars, mainVars>>

\* a call of generate_order_independent_fingerprint(df)
OrderIndependentCall ==
  /\ calls < MaxCalls
  /\ orig # EmptyFrame
  /\ \E r \in {generate_order_independent_fingerprint(df, policy)} :
        /\ out' = [mode |-> "independent", digest |-> r.fingerprint,
                   canon |-> r.hashed, input |-> df, log |-> r.log]
        /\ df' = r.arg
  /\ calls' = calls + 1
  /\ UNCHANGED <<policy, orig, loaded, rowsMoved, colsMoved>>
  /\ UNCHANGED <<pairVars, decVars, mainVars>>

Init == InitPipe /\ IdlePair /\ IdleDec /\ IdleMain

Next == OrderDependentCall \/ OrderIndependentCall

Spec == Init /\ [][Next]_vars

-----------------------------------------------------------------------------
(* Two tables fingerprinted side by side                                   *)

InitPair ==
  /\ policy \in Policies
  /\ orig \in PairTables
  /\ loaded = orig /\ rowsMoved = FALSE /\ colsMoved = FALSE
  /\ df = orig /\ calls = 0 /\ out = NoOut
  /\ other \in PairTables
  /\ outOther = NoOut
  /\ IdleDec /\ IdleMain

\* a call of generate_order_independent_fingerprint(other)
OrderIndependentOther ==
  /\ other # EmptyFrame
  /\ outOther.mode = "none"
  /\ \E r \in {generate_order_independent_fingerprint(other, policy)} :
        /\ outOther' = [mode |-> "independent", digest |-> r.fingerprint,
                        canon |-> r.hashed, input |-> other, log |-> r.log]
        /\ other' = r.arg
  /\ UNCHANGED <<pipeVars, decVars, mainVars>>

NextPair == OrderIndependentCall \/ OrderIndependentOther

SpecPair == InitPair /\ [][NextPair]_vars

-----------------------------------------------------------------------------
(* detect_decimal_separator, row by row                                    *)

IdlePipe ==
  /\ policy = "each" /\ orig = EmptyFrame /\ loaded = EmptyFrame
  /\ rowsMoved = FALSE /\ colsMoved = FALSE
  /\ df = EmptyFrame /\ calls = 0 /\ out = NoOut

InitDec ==
  /\ decPc = "open" /\ decHeader = <<>> /\ decRead = 0
  /\ decCounts = NoCounts /\ decSeen = NoCounts /\ decResult = ""
  /\ IdlePipe /\ IdlePair /\ IdleMain

\* value, with everything but digits, ',' and '.' removed, is one digit run,
\* then sep, then one digit run
TwoDigitRuns(value, sep) ==
  LET v == SelectSeq(value, LAMBDA c : IsDigitChar(c) \/ c = "," \/ c = ".")
  IN \E k \in 2..Len(v) - 1 :
       /\ v[k] = sep
       /\ \A i \in 1..Len(v) : i # k => IsDigitChar(v[i])

\* the count of the values of a row that are two digit runs around sep
SeenInRow(row, sep) == Cardinality({k \in 1..Len(row) : TwoDigitRuns(row[k], sep)})

\* headers = next(reader, None): the header, if the file has one, is skipped
SkipHeader ==
  /\ decPc = "open"
  /\ \E h \in HeaderValues : decHeader' = h
  /\ decPc' = "rows"
  /\ UNCHANGED <<decRead, decCounts, decSeen, decResult>>
  /\ UNCHANGED <<pipeVars, pairVars, mainVars>>

\* one pass of "for _ in range(10)" in which next(reader) yields a row
SampleRow ==
  /\ decPc = "rows"
  /\ decRead < SampleRows
  /\ \E row \in SampleRowValues :
       /\ decCounts' = CountRow(decCounts, row)
       /\ decSeen' = [sep \in {",", "."} |-> decSeen[sep] + SeenInRow(row, sep)]
  /\ decRead' = decRead + 1
  /\ UNCHANGED <<decPc, decHeader, decResult>>
  /\ UNCHANGED <<pipeVars, pairVars, mainVars>>

\* next(reader) raises StopIteration: break
EndOfRows ==
  /\ decPc = "rows"
  /\ decRead < SampleRows
  /\ decPc' = "counted"
  /\ UNCHANGED <<decHeader, decRead, decCounts, decSeen, decResult>>
  /\ UNCHANGED <<pipeVars, pairVars, mainVars>>

\* after the loop: the separator is determined and returned
ReturnDecimal ==
  /\ decPc = "counted" \/ (decPc = "rows" /\ decRead = SampleRows)
  /\ decResult' = DetectedDecimal(decCounts)
  /\ decPc' = "done"
  /\ UNCHANGED <<decHeader, decRead, decCounts, decSeen>>
  /\ UNCHANGED <<pipeVars, pairVars, mainVars>>

NextDec == SkipHeader \/ SampleRow \/ EndOfRows \/ ReturnDecimal

SpecDec == InitDec /\ [][NextDec]_vars

-----------------------------------------------------------------------------
(* main                                                                    *)

Line(kind) == [kind |-> kind, digest |-> <<>>]

FingerprintLine(digest) == [kind |-> "fingerprint", digest |-> digest]

InitMain ==
  /\ policy \in Policies
  /\ orig = EmptyFrame /\ loaded = EmptyFrame
  /\ rowsMoved = FALSE /\ colsMoved = FALSE
  /\ df = EmptyFrame /\ calls = 0 /\ out = NoOut
  /\ IdlePair /\ IdleDec
  /\ mPc = "choice" /\ choice = "" /\ file_path = <<>>
  /\ \E ca, cb \in Contents :
       fs = [q \in AllPaths |-> IF q = <<"a">> THEN ca ELSE IF q = <<"b">> THEN cb ELSE Absent]
  /\ mDf = EmptyFrame
  /\ printed = <<Line("menu")>>
  /\ status = -1
  /\ loadLog = <<>>

\* choice = input(...); an invalid choice exits with status 1
EnterChoice ==
  /\ mPc = "choice"
  /\ \E c \in Choices :
       /\ choice' = c
       /\ IF c \notin {"1", "2"}
          THEN /\ printed' = Append(printed, Line("invalid"))
               /\ status' = 1
               /\ mPc' = "exit"
          ELSE /\ mPc' = "path"
               /\ UNCHANGED <<printed, status>>
  /\ UNCHANGED <<file_path, fs, mDf, loadLog>>
  /\ UNCHANGED <<pipeVars, pairVars, decVars>>

\* file_path = input(...).strip(); a path that does not exist exits with 1
EnterPath ==
  /\ mPc = "path"
  /\ \E q \in TypedPaths :
       /\ file_path' = Strip(q)
       /\ IF ~PathExists(fs, Strip(q))
          THEN /\ printed' = Append(printed, Line("missing"))
               /\ status' = 1
               /\ mPc' = "exit"
          ELSE /\ mPc' = "load"
               /\ UNCHANGED <<printed, status>>
  /\ UNCHANGED <<choice, fs, mDf, loadLog>>
  /\ UNCHANGED <<pipeVars, pairVars, decVars>>

\* df = load_data(file_path) inside the try block: it returns the table, or
\* raises when the file cannot be read in any format
LoadData ==
  /\ mPc = "load"
  /\ loadLog' = Append(loadLog, file_path)
  /\ IF fs[file_path].kind = "table"
     THEN /\ mDf' = fs[file_path].table
          /\ mPc' = "fingerprint"
          /\ UNCHANGED <<printed, status>>
     ELSE /\ printed' = Append(printed, Line("error"))
          /\ status' = 1
          /\ mPc' = "exit"
          /\ UNCHANGED mDf
  /\ UNCHANGED <<choice, file_path, fs>>
  /\ UNCHANGED <<pipeVars, pairVars, decVars>>

\* fingerprint = generate_..._fingerprint(df); print(..., fingerprint): the
\* line is printed after the function has returned, an exception exits
\* with status 1, and main returning ends the process with status 0
PrintFingerprint ==
  /\ mPc = "fingerprint"
  /\ IF ReindexRaises(mDf)
     THEN /\ printed' = Append(printed, Line("error"))
          /\ status' = 1
     ELSE /\ printed' = Append(printed,
                               FingerprintLine(IF choice = "1"
                                               THEN generate_order_dependent_fingerprint(mDf, policy).fingerprint
                                               ELSE generate_order_independent_fingerprint(mDf, policy).fingerprint))
          /\ status' = 0
  /\ mPc' = "exit"
  /\ UNCHANGED <<choice, file_path, fs, mDf, loadLog>>
  /\ UNCHANGED <<pipeVars, pairVars, decVars>>

NextMain == EnterChoice \/ EnterPath \/ LoadData \/ PrintFingerprint

SpecMain == InitMain /\ [][NextMain]_vars

-----------------------------------------------------------------------------
(* Properties of the fingerprint functions                                 *)

\* the digest a mode returns on a table that no call has touched
FreshDigest(mode, T) ==
  IF mode = "dependent"
  THEN generate_order_dependent_fingerprint(T, policy).fingerprint
  ELSE generate_order_independent_fingerprint(T, policy).fingerprint

\* the last call was made on the table as it was loaded
OnLoaded == out.mode # "none" /\ calls = 1

\* C1: column-order invariance.  A table that differs from the reference
\* table only in the order of its columns gets the reference table's digest,
\* in both modes.
ColumnOrderInvariance ==
  (OnLoaded /\ ~rowsMoved) => out.digest = FreshDigest(out.mode, orig)

\* a call on a table whose columns were reordered, rows in place
ColumnOrderWitness ==
  /\ OnLoaded /\ out.mode = "dependent"
  /\ colsMoved /\ ~rowsMoved
  /\ loaded.names # orig.names

\* C2: row-order invariance.  In order-independent mode a table that differs
\* from the reference table in the order of its rows (or columns) gets the
\* reference table's digest.
RowOrderInvariance ==
  (OnLoaded /\ out.mode = "independent") => out.digest = FreshDigest("independent", orig)

\* C7: determinism across invocations.  Every call on the same in-memory
\* table returns the digest its mode returns on a fresh copy of the table
\* as loaded.
DeterministicAcrossCalls ==
  out.mode # "none" => out.digest = FreshDigest(out.mode, loaded)

\* a second call, made on a table the first call has rewritten
RepeatedCallWitness ==
  /\ calls = 2
  /\ out.input # loaded
  /\ df = out.input

-----------------------------------------------------------------------------
(* Properties of the canonical table                                       *)

Called == out.mode # "none"

\* the cell of column nm, row i
CellAt(T, nm, i) == T.cols[IndexOf(T.names, nm)].cells[i]

\* the value the format-free parse could not read, in a column it accepted
FailedInference(col, i) ==
  /\ col.dtype = "object"
  /\ DetectColumn(col, policy).stage = "inferred"
  /\ DetectColumn(col, policy).cells[i].k = "null"

\* C4: canonical-table postcondition.  The frame that is serialised has the
\* argument's columns in increasing order of their names, only str cells,
\* and the empty string wherever the argument had a missing value or a
\* value the datetime inference could not read.
CanonicalPostcondition ==
  Called =>
    /\ NCols(out.canon) = NCols(out.input)
    /\ \A j \in 1..NCols(out.canon) - 1 : LexLess(out.canon.names[j], out.canon.names[j + 1])
    /\ \A j \in 1..NCols(out.input) :
         /\ \E jj \in 1..NCols(out.canon) : out.canon.names[jj] = out.input.names[j]
         /\ \A i \in 1..NRows(out.input) :
              LET c == CellAt(out.canon, out.input.names[j], i)
              IN /\ c.k = "str"
                 /\ (out.input.cols[j].cells[i].k = "null" \/ FailedInference(out.input.cols[j], i))
                      => c.s = <<>>

\* a call on a frame with unsorted columns, a missing value and a value the
\* inference could not read
CanonicalWitness ==
  /\ Called
  /\ NCols(out.input) >= 2
  /\ LexLess(out.input.names[2], out.input.names[1])
  /\ \E j \in 1..NCols(out.input), i \in 1..NRows(out.input) :
       out.input.cols[j].cells[i].k = "null"
  /\ \E j \in 1..NCols(out.input), i \in 1..NRows(out.input) :
       FailedInference(out.input.cols[j], i)

\* "YYYY-MM-DD"
MatchesIsoDate(c) == c.k = "str" /\ Strptime(datetime_formats[5], c.s).ok

\* Scenario C: the cell "  2023-01-05  " at row i of an object column whose
\* other values, at least one, all match YYYY-MM-DD
ScenarioC(col, i) ==
  /\ col.dtype = "object"
  /\ Len(col.cells) >= 2
  /\ col.cells[i] = PaddedDate
  /\ \A h \in 1..Len(col.cells) : h # i => MatchesIsoDate(col.cells[h])

\* C5 as claimed: in both modes the Scenario C cell has the canonical string
\* "2023-01-05".
ScenarioCDateOnly ==
  Called =>
    \A j \in 1..NCols(out.input), i \in 1..NRows(out.input) :
      ScenarioC(out.input.cols[j], i)
        => CellAt(out.canon, out.input.names[j], i).s = IsoDate(5).s

\* C5 as amended: in both modes the Scenario C cell has the canonical string
\* "2023-01-05 00:00:00" when its column is rewritten as a datetime column
\* and the cell was parsed, the empty string when the column is rewritten
\* and the cell was not parsed, and "2023-01-05" only when the column is
\* not rewritten.
ScenarioCFullFormat ==
  Called =>
    \A j \in 1..NCols(out.input), i \in 1..NRows(out.input) :
      ScenarioC(out.input.cols[j], i)
        => LET r == DetectColumn(out.input.cols[j], policy)
               c == CellAt(out.canon, out.input.names[j], i)
           IN /\ (r.stage # "none" /\ r.cells[i].k = "dt")
                   => c.s = IsoDate(5).s \o <<" ", "0", "0", ":", "0", "0", ":", "0", "0">>
              /\ (r.stage # "none" /\ r.cells[i].k # "dt") => c.s = <<>>
              /\ r.stage = "none" => c.s = IsoDate(5).s

\* a call on a Scenario C column that was rewritten with the cell parsed
ScenarioCWitness ==
  /\ Called
  /\ \E j \in 1..NCols(out.input), i \in 1..NRows(out.input) :
       /\ ScenarioC(out.input.cols[j], i)
       /\ out.log[j].stage = "inferred"
       /\ CellAt(out.canon, out.input.names[j], i).s
            = IsoDate(5).s \o <<" ", "0", "0", ":", "0", "0", ":", "0", "0">>

\* x to 6 decimals, an exact tie going away from zero
HalfAwayFromZero(x) ==
  LET up == 2 * x.sub >= 10 ^ SubDigits
  IN IF ~up THEN [x EXCEPT !.sub = 0]
     ELSE IF x.micro + 1 = 10 ^ RoundDecimals
          THEN [neg |-> x.neg, ip |-> x.ip + 1, micro |-> 0, sub |-> 0]
          ELSE [neg |-> x.neg, ip |-> x.ip, micro |-> x.micro + 1, sub |-> 0]

\* x to 6 decimals, an exact tie going to the even 6th decimal
HalfToEven(x) ==
  LET tie == 2 * x.sub = 10 ^ SubDigits
      up == 2 * x.sub > 10 ^ SubDigits \/ (tie /\ x.micro % 2 # 0)
  IN IF ~up THEN [x EXCEPT !.sub = 0]
     ELSE IF x.micro + 1 = 10 ^ RoundDecimals
          THEN [neg |-> x.neg, ip |-> x.ip + 1, micro |-> 0, sub |-> 0]
          ELSE [neg |-> x.neg, ip |-> x.ip, micro |-> x.micro + 1, sub |-> 0]

\* the number cells of the argument have the canonical strings of Rounded
RoundedBy(Rounded(_)) ==
  Called =>
    \A j \in 1..NCols(out.input), i \in 1..NRows(out.input) :
      (out.input.cols[j].dtype = "float64" /\ out.input.cols[j].cells[i].k = "num")
        => CellAt(out.canon, out.input.names[j], i).s
             = FloatStr(Rounded(out.input.cols[j].cells[i].x))

-----------------------------------------------------------------------------
(* Properties of the datetime detection                                    *)

\* format f parses every value of the column that is not missing
ParsesAll(f, cells) ==
  \A i \in 1..Len(cells) :
    IsNullLike(cells[i]) \/ (cells[i].k = "str" /\ Strptime(datetime_formats[f], cells[i].s).ok)

\* the canonical text of value c read with format f
Rewritten(f, c) ==
  IF IsNullLike(c) THEN Null
  ELSE Str(Strftime(datetime_formats[1], Strptime(datetime_formats[f], c.s).t))

\* C9: datetime column detection.  An object column is rewritten with the
\* first explicit format, in list order, that parses all its non-missing
\* values, and no later format is tried; failing that, it is rewritten from
\* the format-free parse when that reads at least 80% of its values, the
\* other values becoming missing; failing that, it is left as it was.
DetectionRule ==
  Called =>
    \A j \in 1..NCols(out.input) :
      out.input.cols[j].dtype = "object" =>
        LET cells == out.input.cols[j].cells
            n == Len(cells)
            after == df.cols[j].cells
            parsing == {f \in 1..Len(datetime_formats) : ParsesAll(f, cells)}
            f1 == CHOOSE f \in parsing : \A g \in parsing : f <= g
            free == ToDatetimeCoerce(cells, policy)
            good == Cardinality({i \in 1..n : free[i].k = "dt"})
        IN IF parsing # {}
           THEN /\ out.log[j].stage = "explicit"
                /\ out.log[j].fmt = f1
                /\ out.log[j].tried = f1
                /\ \A i \in 1..n : after[i] = Rewritten(f1, cells[i])
           ELSE IF n > 0 /\ 100 * good >= 80 * n
                THEN /\ out.log[j].stage = "inferred"
                     /\ \A i \in 1..n :
                          after[i] = IF free[i].k = "dt"
                                     THEN Str(Strftime(datetime_formats[1], free[i].t))
                                     ELSE Null
                ELSE /\ out.log[j].stage = "none"
                     /\ after = cells

\* a call on a column of which the format-free parse read exactly 80%
DetectionWitness ==
  /\ Called
  /\ \E j \in 1..NCols(out.input) :
       LET cells == out.input.cols[j].cells
           free == ToDatetimeCoerce(cells, policy)
       IN /\ out.input.cols[j].dtype = "object"
          /\ out.log[j].stage = "inferred"
          /\ 5 * Cardinality({i \in 1..Len(cells) : free[i].k = "dt"}) = 4 * Len(cells)
          /\ \E i \in 1..Len(cells) : cells[i].k = "str" /\ df.cols[j].cells[i] = Null

-----------------------------------------------------------------------------
(* Properties of two tables side by side                                   *)

\* the number of rows of T whose field strings are r
RowCount(T, r) == Cardinality({i \in 1..NRows(T) : RowValues(T, i) = r})

\* A and B hold the same rows, each as many times
SameRowMultiset(A, B) ==
  /\ NRows(A) = NRows(B)
  /\ \A i \in 1..NRows(A) : RowCount(A, RowValues(A, i)) = RowCount(B, RowValues(A, i))

\* C3: different data, different digest.  Two canonical tables with the same
\* column names whose multisets of rows differ get different
\* order-independent fingerprints.
DifferentRowsDifferentDigest ==
  (/\ out.mode = "independent" /\ outOther.mode = "independent"
   /\ out.canon.names = outOther.canon.names
   /\ ~SameRowMultiset(out.canon, outOther.canon))
    => out.digest # outOther.digest

-----------------------------------------------------------------------------
(* Properties of detect_decimal_separator                                  *)

\* C10: decimal-separator detection.  At most 10 rows after the header are
\* examined; the count of a separator is the number of sampled values that,
\* stripped of everything but digits, ',' and '.', are two non-empty digit
\* runs around that separator; ',' is returned iff its count is strictly
\* greater than the count of '.', and '.' otherwise.
DecimalDetection ==
  /\ decRead <= SampleRows
  /\ decCounts = decSeen
  /\ decPc = "done" =>
       /\ decResult \in {",", "."}
       /\ decResult = "," <=> decSeen[","] > decSeen["."]

\* '.' returned on a tie that is not zero/zero, after a header that looks
\* like a decimal and the full sample of rows
DecimalWitness ==
  /\ decPc = "done"
  /\ decRead = SampleRows
  /\ decHeader = << <<"1", ",", "5">> >>
  /\ decSeen[","] = decSeen["."]
  /\ decSeen[","] > 0
  /\ decResult = "."

-----------------------------------------------------------------------------
(* Properties of main                                                      *)

\* the path holds something
OnDisk(path) == fs[path].kind # "absent"

\* a fingerprint line was printed
FingerprintPrinted == \E i \in 1..Len(printed) : printed[i].kind = "fingerprint"

\* the run can produce a fingerprint: a valid mode, an existing path, a file
\* that loads and a table the fingerprint function accepts
RunSucceeds ==
  /\ choice \in {"1", "2"}
  /\ mPc \notin {"choice", "path"}
  /\ OnDisk(file_path)
  /\ fs[file_path].kind = "table"
  /\ ~ReindexRaises(fs[file_path].table)

\* C8: no fingerprint on failure.  A fingerprint line is printed only when
\* the mode is valid, the path exists, and loading and fingerprinting
\* succeed; every other run exits with a non-zero status; and load_data is
\* only ever called with a path that exists.
NoFingerprintOnFailure ==
  /\ FingerprintPrinted => RunSucceeds
  /\ (mPc = "exit" /\ ~RunSucceeds) => (status # 0 /\ ~FingerprintPrinted)
  /\ \A i \in 1..Len(loadLog) : OnDisk(loadLog[i])

\* a run that ended with status 1 because load_data raised
FailureWitness ==
  /\ mPc = "exit"
  /\ loadLog # <<>>
  /\ fs[file_path].kind = "unreadable"
  /\ status = 1
  /\ ~FingerprintPrinted

=============================================================================
